---- MODULE Spec2Model ----
(***************************************************************************)
(* Model of mopenstack: the Keystone identity store, password login,       *)
(* token issuance and validation (services/keystone), and the Nova server  *)
(* endpoints that consume the tokens (services/nova).                      *)
(*                                                                         *)
(* Time is a clock `now` counted in ticks, TicksPerSecond ticks to the     *)
(* second.  Python datetimes carry sub-second precision; the "exp" claim   *)
(* of a JWT is a whole number of seconds (python-jose converts the         *)
(* datetime with timegm(...utctimetuple()) on encode and compares          *)
(* int(exp) < timegm(now) on decode).                                      *)
(*                                                                         *)
(* An Optional[...] value of the code is a set with at most one element:   *)
(* {} is None.  An optional string inside a record is the string or None.  *)
(***************************************************************************)
EXTENDS Integers, Sequences, FiniteSets, TLC

VARIABLES
    now,        \* the wall clock (datetime.now(timezone.utc)), in ticks
    domains,    \* table "domains"
    projects,   \* table "projects"
    project_seq,\* number of projects ever inserted (uuid4 ids are never reused)
    users,      \* table "users"
    roles,      \* table "roles"
    boot,       \* bootstrap_keystone(): its position, locals and run counts
    runs,       \* concurrent bootstrap_keystone() processes: position and locals
    tokens,     \* table "tokens"
    issued,     \* token strings handed to clients in X-Subject-Token
    flavors,    \* table "flavors"
    servers,    \* table "servers"
    server_seq, \* number of servers ever inserted
    keypairs,   \* table "keypairs"
    resp,       \* the last request and its HTTP response
    jwt         \* SpecJwt: the last create_access_token / verify_token call

seed     == <<roles, boot, runs>>
identity == <<domains, projects, project_seq, users, seed>>
compute  == <<flavors, servers, server_seq, keypairs>>
vars == <<now, domains, projects, project_seq, users, roles, boot, runs, tokens, issued,
          flavors, servers, server_seq, keypairs, resp, jwt>>

----------------------------------------------------------------------------
(* Bounds of the model *)

TicksPerSecond == 2     \* clock resolution
MaxSubTicks    == 1     \* ticks explored after each whole day
MaxDays        == 1     \* whole token lifetimes the clock may jump
MaxDrift       == 1     \* ticks the clock may advance inside one handler
MaxProjects    == 2
MaxUsers       == 2
MaxTokens      == 2     \* logins that reach create_token
MaxServers     == 1     \* servers ever created
MaxTtl         == 3     \* SpecJwt: largest expires_delta, in ticks
MaxJwtClock    == 6     \* SpecJwt: last clock value
MaxProcs       == 2     \* SpecRace: concurrent bootstrap_keystone() processes
MaxRuns        == 3     \* SpecBoot: calls of bootstrap_keystone()

(* Program constants *)

TOKEN_TTL_HOURS == 24   \* timedelta(hours=24)

None == "null"          \* Python None / a key absent from a dict

secret_key == "mock-openstack-secret-key-change-in-production"

HOURS(h) == h * 3600 * TicksPerSecond

\* timegm(t.utctimetuple()): the whole seconds of a datetime
timegm(t) == t \div TicksPerSecond

\* uuid4(): the n-th fresh identifier of a table
uuid(prefix, n) == prefix \o ToString(n)

\* Query.first() / next(iter, None): no row, or one of the matching rows
\* (no ORDER BY: any matching row may come first)
first(rows) == IF rows = {} THEN {{}} ELSE {{r} : r \in rows}

\* str.lower() on the names the model uses
lower(s) ==
    CASE s = "Default" -> "default"
      [] s = "DEFAULT" -> "default"
      [] OTHER -> s

----------------------------------------------------------------------------
(* services/keystone/auth.py *)

\* pwd_context.hash: a salted one-way hash; the salt is fresh on every call
get_password_hash(password, salt) ==
    [scheme |-> "bcrypt", salt |-> salt, digest |-> <<salt, password>>]

\* pwd_context.verify
verify_password(plain_password, hashed_password) ==
    hashed_password.digest = <<hashed_password.salt, plain_password>>

\* jwt.encode(to_encode, key, "HS256"): deterministic in (claims, key); the
\* datetime "exp" is stored as whole seconds.  The token string is modelled
\* by the triple it encodes.
jwt_encode(claims, exp, key) ==
    [claims |-> claims, exp |-> timegm(exp), sig |-> key]

\* create_access_token(data, expires_delta) called at clock value t.
\* expires_delta is an Optional[timedelta], in ticks; `if expires_delta:` is
\* false for None and for timedelta(0).
create_access_token(data, expires_delta, t) ==
    LET expire == IF expires_delta # {} /\ expires_delta # {0}
                  THEN t + (CHOOSE d \in expires_delta : TRUE)
                  ELSE t + HOURS(TOKEN_TTL_HOURS)
    IN  jwt_encode(data, expire, secret_key)

\* Mutant: a string verifies only while a Token row holds it
verify_token_stored(token, t) ==
    IF /\ token.sig = secret_key /\ ~(token.exp < timegm(t))
       /\ \E r \in tokens : r.token_hash = token
    THEN {[claims |-> token.claims, exp |-> token.exp]}
    ELSE {}

\* verify_token(token) called at clock value t: the payload (claims and exp),
\* or None on JWTError (bad signature, or exp < now in whole seconds)
verify_token(token, t) ==
    IF token.sig = secret_key /\ ~(token.exp < timegm(t))
    THEN {[claims |-> token.claims, exp |-> token.exp]}
    ELSE {}

----------------------------------------------------------------------------
(* services/keystone/service.py: KeystoneService *)

get_domain(domain_id) == first({d \in domains : d.id = domain_id})

list_domains == domains

\* next((d for d in domains if d.name.lower() == "default"), None)
default_domain == first({d \in list_domains : lower(d.name) = "default"})

get_project(project_id) == first({p \in projects : p.id = project_id})

list_projects == projects

\* Mutant: the user row is made up from the id, the table is not read
get_user_unchecked(user_id) ==
    {{[id |-> user_id, name |-> None, password_hash |-> None, enabled |-> TRUE,
       domain_id |-> None, default_project_id |-> None]}}

get_user(user_id) == first({u \in users : u.id = user_id})

get_user_by_name(username, domain_id) ==
    first({u \in users : u.name = username /\ u.domain_id = domain_id})

\* Mutant: the password is not compared
authenticate_user_any_password(found, password) ==
    IF found = {} THEN {}
    ELSE IF \E u \in found : ~u.enabled THEN {}
    ELSE found

\* Mutant: the enabled flag is not consulted
authenticate_user_ignores_enabled(found, password) ==
    IF found = {} \/ \E u \in found : ~verify_password(password, u.password_hash)
    THEN {}
    ELSE found

\* authenticate_user, given the row `found` that get_user_by_name returned
authenticate_user(found, password) ==
    IF found = {} \/ \E u \in found : ~verify_password(password, u.password_hash)
    THEN {}
    ELSE IF \E u \in found : ~u.enabled
    THEN {}
    ELSE found

\* Mutant: the scope is left out of the claims
token_data_unscoped(user, project_id) ==
    [sub |-> user.id, username |-> user.name, domain_id |-> user.domain_id,
     project_id |-> None]

\* token_data of create_token
token_data(user, project_id) ==
    [sub |-> user.id, username |-> user.name, domain_id |-> user.domain_id,
     project_id |-> IF project_id # None /\ project_id # "" THEN project_id ELSE None]

\* Mutant: the row records the user's default project
token_row_default_project(user, project_id, t1, t2) ==
    [token_hash |-> create_access_token(token_data(user, project_id),
                                        {HOURS(TOKEN_TTL_HOURS)}, t1),
     user_id    |-> user.id,
     project_id |-> user.default_project_id,
     expires_at |-> t2 + HOURS(TOKEN_TTL_HOURS),
     created_at |-> timegm(t2) * TicksPerSecond]

\* The Token row create_token builds: the JWT is signed at clock value t1,
\* the row's expires_at is computed at t2 >= t1, created_at is the database's
\* CURRENT_TIMESTAMP (whole seconds) at the insert.
token_row(user, project_id, t1, t2) ==
    [token_hash |-> create_access_token(token_data(user, project_id),
                                        {HOURS(TOKEN_TTL_HOURS)}, t1),
     user_id    |-> user.id,
     project_id |-> project_id,
     expires_at |-> t2 + HOURS(TOKEN_TTL_HOURS),
     created_at |-> timegm(t2) * TicksPerSecond]

\* Token.token_hash is unique=True: the commit raises IntegrityError when a
\* row with the same string is stored
token_insert_ok(row) == \A r \in tokens : r.token_hash # row.token_hash

\* Mutant: the store is not consulted
validate_token_signature_only(token, t) == verify_token(token, t)

\* validate_token(token) called at clock value t
validate_token(token, t) ==
    LET payload  == verify_token(token, t)
        db_token == first({r \in tokens : r.token_hash = token /\ r.expires_at > t})
    IN  IF payload = {} THEN {}
        ELSE IF db_token = {{}} THEN {}
        ELSE payload

----------------------------------------------------------------------------
(* Inputs *)

DomainNames  == {"Default", "corp"}
ProjectNames == {"admin", "demo"}  \* names of the projects created
ScopeNames   == {"admin", "ghost"} \* project names logins ask a scope for
UserNames    == {"admin"}          \* names of the users created
LoginNames   == {"admin", "ghost"} \* names logins are attempted with
Passwords    == {"password", "hunter2"}

DomainIds  == {d.id : d \in domains}
ProjectIds == {p.id : p \in projects}

\* domain.id of a login: absent ("default"), a stored id, or an unknown id
LoginDomains == {"default"} \cup DomainIds

\* auth.scope["project"] of a login: {} when the request has no scope or no
\* "project" key in it, else the project spec with its id and name keys
NoScope == {}
ProjectScope(id, name) == {[id |-> id, name |-> name]}
Scopes ==
    {NoScope, ProjectScope(None, None), ProjectScope("no-such-project", None),
     ProjectScope("no-such-project", "admin")}
    \cup {ProjectScope(p, None) : p \in ProjectIds}
    \cup {ProjectScope(None, n) : n \in ScopeNames}

----------------------------------------------------------------------------
(* The clock *)

\* the clock advances by one tick
Tick ==
    /\ (now % HOURS(TOKEN_TTL_HOURS)) < MaxSubTicks
    /\ now' = now + 1
    /\ UNCHANGED <<identity, tokens, issued, compute, resp, jwt>>

\* the clock advances by one token lifetime
TickDay ==
    /\ now + HOURS(TOKEN_TTL_HOURS) <= MaxDays * HOURS(TOKEN_TTL_HOURS) + MaxSubTicks
    /\ now' = now + HOURS(TOKEN_TTL_HOURS)
    /\ UNCHANGED <<identity, tokens, issued, compute, resp, jwt>>

----------------------------------------------------------------------------
(* services/keystone/router.py and service.py: the identity endpoints *)

\* POST /v3/domains
CreateDomain(name) ==
    /\ IF \E d \in domains : d.name = name
       THEN \* Domain.name is unique=True: IntegrityError
            /\ resp' = [op |-> "create_domain", status |-> 500,
                        detail |-> "Internal Server Error"]
            /\ UNCHANGED domains
       ELSE /\ domains' = domains \cup
                  {[id |-> uuid("d-", Cardinality(domains) + 1), name |-> name]}
            /\ resp' = [op |-> "create_domain", status |-> 200, detail |-> None]
    /\ UNCHANGED <<now, projects, project_seq, users, seed, tokens, issued, compute, jwt>>

\* The domain a create_project / create_user call resolves: the given id, or
\* the default domain when none is given; {} with the 404 detail otherwise
resolve_create_domain(domain_id, dflt) ==
    IF domain_id = None /\ dflt = {}
    THEN [domain |-> {}, detail |-> "Default domain not found"]
    ELSE LET id == IF domain_id = None THEN (CHOOSE d \in dflt : TRUE).id ELSE domain_id
         IN  IF \E d \in domains : d.id = id
             THEN [domain |-> {id}, detail |-> None]
             ELSE [domain |-> {}, detail |-> "Domain not found"]

\* POST /v3/projects
CreateProject(name, domain_id) ==
    /\ project_seq < MaxProjects
    /\ \E dflt \in default_domain :
         LET r == resolve_create_domain(domain_id, dflt)
         IN  IF r.domain = {}
             THEN /\ resp' = [op |-> "create_project", status |-> 404, detail |-> r.detail]
                  /\ UNCHANGED <<projects, project_seq>>
             ELSE /\ projects' = projects \cup
                        {[id |-> uuid("p-", project_seq + 1), name |-> name,
                          domain_id |-> CHOOSE d \in r.domain : TRUE]}
                  /\ project_seq' = project_seq + 1
                  /\ resp' = [op |-> "create_project", status |-> 200, detail |-> None]
    /\ UNCHANGED <<now, domains, users, seed, tokens, issued, compute, jwt>>

\* POST /v3/users
CreateUser(name, password, enabled, domain_id, default_project_id) ==
    /\ Cardinality(users) < MaxUsers
    /\ \E dflt \in default_domain :
         LET r == resolve_create_domain(domain_id, dflt)
         IN  IF r.domain = {}
             THEN /\ resp' = [op |-> "create_user", status |-> 404, detail |-> r.detail]
                  /\ UNCHANGED users
             ELSE /\ users' = users \cup
                        {[id |-> uuid("u-", Cardinality(users) + 1), name |-> name,
                          password_hash |->
                              get_password_hash(password, Cardinality(users) + 1),
                          enabled |-> enabled,
                          domain_id |-> CHOOSE d \in r.domain : TRUE,
                          default_project_id |-> default_project_id]}
                  /\ resp' = [op |-> "create_user", status |-> 200, detail |-> None]
    /\ UNCHANGED <<now, domains, projects, project_seq, seed, tokens, issued, compute, jwt>>

\* The response to a request on /v3/projects/{project_identifier}; `before`
\* is the projects table the request found
ProjectResponse(op, project_identifier, status, detail) ==
    [op |-> op, status |-> status, detail |-> detail,
     identifier |-> project_identifier, before |-> projects]

\* GET /v3/projects/{project_identifier}: KeystoneService has no
\* _resolve_project, the call raises AttributeError
GetProject(project_identifier) ==
    /\ resp' = ProjectResponse("get_project", project_identifier, 500,
                               "Internal Server Error")
    /\ UNCHANGED <<now, identity, tokens, issued, compute, jwt>>

\* PATCH /v3/projects/{project_identifier} with a new name
UpdateProject(project_identifier, name) ==
    /\ \E db_project \in get_project(project_identifier) :
         IF db_project = {}
         THEN /\ resp' = ProjectResponse("update_project", project_identifier, 404,
                                         "Project not found")
              /\ UNCHANGED projects
         ELSE /\ projects' = (projects \ db_project) \cup
                    {[p EXCEPT !.name = name] : p \in db_project}
              /\ resp' = ProjectResponse("update_project", project_identifier, 200, None)
    /\ UNCHANGED <<now, domains, project_seq, users, seed, tokens, issued, compute, jwt>>

\* DELETE /v3/projects/{project_identifier}.  db.delete() of the row sets
\* the default_project_id of the users of Project.users to NULL.
DeleteProject(project_identifier) ==
    /\ \E db_project \in get_project(project_identifier) :
         IF db_project = {}
         THEN /\ resp' = ProjectResponse("delete_project", project_identifier, 404,
                                         "Project not found")
              /\ UNCHANGED <<projects, users>>
         ELSE /\ projects' = projects \ db_project
              /\ users' = {IF u.default_project_id = project_identifier
                           THEN [u EXCEPT !.default_project_id = None] ELSE u :
                             u \in users}
              /\ resp' = ProjectResponse("delete_project", project_identifier, 204, None)
    /\ UNCHANGED <<now, domains, project_seq, seed, tokens, issued, compute, jwt>>

\* Mutant: the name lookup forgets its filter and takes any project
resolve_scope_any_name(spec) ==
    IF spec.id # None /\ spec.id # ""
    THEN {[project |-> p, project_id |-> spec.id] : p \in get_project(spec.id)}
    ELSE IF spec.name # None /\ spec.name # ""
    THEN {[project |-> p,
           project_id |-> IF p = {} THEN None ELSE (CHOOSE x \in p : TRUE).id] :
             p \in first(list_projects)}
    ELSE {[project |-> {}, project_id |-> None]}

\* Mutant: an id that resolves nothing falls back to the name
resolve_scope_name_fallback(spec) ==
    IF spec.id # None /\ spec.id # "" /\ get_project(spec.id) # {{}}
    THEN {[project |-> p, project_id |-> spec.id] : p \in get_project(spec.id)}
    ELSE IF spec.name # None /\ spec.name # ""
    THEN {[project |-> p,
           project_id |-> IF p = {} THEN None ELSE (CHOOSE x \in p : TRUE).id] :
             p \in first({q \in list_projects : q.name = spec.name})}
    ELSE {[project |-> {}, project_id |-> None]}

\* The project a login's scope resolves (router.create_token, "Get project if
\* specified in scope"): the possible pairs of the resolved project and the
\* project_id handed to create_token
resolve_scope(spec) ==
    IF spec.id # None /\ spec.id # ""
    THEN {[project |-> p, project_id |-> spec.id] : p \in get_project(spec.id)}
    ELSE IF spec.name # None /\ spec.name # ""
    THEN {[project |-> p,
           project_id |-> IF p = {} THEN None ELSE (CHOOSE x \in p : TRUE).id] :
             p \in first({q \in list_projects : q.name = spec.name})}
    ELSE {[project |-> {}, project_id |-> None]}

\* The request fields every login response record carries
LoginRequest(username, password, domain, scope) ==
    [username |-> username, password |-> password, domain |-> domain, scope |-> scope]

\* request.url of a request: the scheme, the host and the port the client
\* named, the port being absent ({}) when it is the default of the scheme
Url(scheme, host, port) == [scheme |-> scheme, host |-> host, port |-> port]

\* The base URL of the request as the client wrote it
base_url_of(url) ==
    url.scheme \o "://" \o url.host \o
    (IF url.port = {} THEN "" ELSE ":" \o ToString(CHOOSE p \in url.port : TRUE))

\* create_token: port = request.url.port or 5000;
\* base_url = f"http://localhost:{port}"
catalog_base_url(url) ==
    LET port == IF url.port = {} \/ url.port = {0} THEN 5000
                ELSE CHOOSE p \in url.port : TRUE
    IN  "http://localhost:" \o ToString(port)

CatalogEntry(type, name, base_url, version) ==
    [type |-> type, name |-> name,
     endpoints |-> <<[id |-> name \o "-public", interface |-> "public",
                      url |-> base_url \o version]>>]

\* create_token: the catalog of the response
service_catalog(url) ==
    LET base_url == catalog_base_url(url)
    IN  <<CatalogEntry("identity", "keystone", base_url, "/v3"),
          CatalogEntry("compute", "nova", base_url, "/v2.1"),
          CatalogEntry("network", "neutron", base_url, "/v2.0"),
          CatalogEntry("image", "glance", base_url, "/v2")>>

\* POST /v3/auth/tokens with the password method, sent to `url`.  `drift` is
\* the time that
\* passes between the clock read of create_access_token and the one that
\* computes the row's expires_at.
LoginVia(url, username, password, domain, scope, drift) ==
    /\ (now % HOURS(TOKEN_TTL_HOURS)) + drift <= MaxSubTicks
    /\ \E dflt \in default_domain, sc \in (IF scope = {} THEN {[project |-> {}, project_id |-> None]}
                                           ELSE resolve_scope(CHOOSE x \in scope : TRUE)) :
         LET domain_id == IF domain = "default" /\ dflt # {}
                          THEN (CHOOSE d \in dflt : TRUE).id ELSE domain
             req == LoginRequest(username, password, domain, scope)
         IN  \E found \in get_user_by_name(username, domain_id) :
               LET user == authenticate_user(found, password)
                   u    == CHOOSE x \in user : TRUE
                   row  == token_row(u, sc.project_id, now, now + drift)
               IN  IF user = {}
                   THEN /\ drift = 0
                        /\ resp' = [op |-> "login", status |-> 401,
                                    detail |-> "Invalid authentication credentials",
                                    req |-> req, found |-> found, at |-> now,
                                    token |-> {}, row |-> {}, project |-> {},
                                    url |-> url, catalog |-> <<>>]
                        /\ UNCHANGED <<now, tokens, issued>>
                   ELSE IF scope # {} /\ sc.project = {}
                   THEN /\ drift = 0
                        /\ resp' = [op |-> "login", status |-> 404,
                                    detail |-> "Project not found",
                                    req |-> req, found |-> found, at |-> now,
                                    token |-> {}, row |-> {}, project |-> {},
                                    url |-> url, catalog |-> <<>>]
                        /\ UNCHANGED <<now, tokens, issued>>
                   ELSE IF ~token_insert_ok(row)
                   THEN \* db.commit() raises IntegrityError
                        /\ now' = now + drift
                        /\ resp' = [op |-> "login", status |-> 500,
                                    detail |-> "Internal Server Error",
                                    req |-> req, found |-> found, at |-> now + drift,
                                    token |-> {}, row |-> {}, project |-> {},
                                    url |-> url, catalog |-> <<>>]
                        /\ UNCHANGED <<tokens, issued>>
                   ELSE /\ Cardinality(issued) < MaxTokens
                        /\ now' = now + drift
                        /\ tokens' = tokens \cup {row}
                        /\ issued' = issued \cup {row.token_hash}
                        /\ resp' = [op |-> "login", status |-> 200, detail |-> None,
                                    req |-> req, found |-> found, at |-> now + drift,
                                    token |-> {row.token_hash}, row |-> {row},
                                    project |-> sc.project,
                                    url |-> url, catalog |-> service_catalog(url)]
    /\ UNCHANGED <<identity, compute, jwt>>

\* The same request sent to http://localhost:5000
Login(username, password, domain, scope, drift) ==
    LoginVia(Url("http", "localhost", {5000}), username, password, domain, scope,
             drift)

\* The keys present in the body of a POST /v3/auth/tokens that is not a
\* well-formed password request: the path of keys from the top that the
\* body has (each key holding a JSON object), "auth", "identity",
\* "password", "user", and whether the user object has "name" and "password"
MalformedBodies ==
    {[path |-> <<>>, name |-> FALSE, password |-> FALSE],
     [path |-> <<"auth">>, name |-> FALSE, password |-> FALSE],
     [path |-> <<"auth", "identity">>, name |-> FALSE, password |-> FALSE],
     [path |-> <<"auth", "identity", "password">>, name |-> FALSE, password |-> FALSE]}
    \cup {b \in [path : {<<"auth", "identity", "password", "user">>},
                  name : BOOLEAN, password : BOOLEAN] :
             ~(b.name /\ b.password)}

\* POST /v3/auth/tokens with such a body: the AuthRequest schema, then the
\* lookups of create_token up to the first key that is missing
MalformedLogin(body) ==
    /\ LET outcome ==
             IF Len(body.path) < 2
             THEN \* AuthRequest / TokenRequest validation fails
                  [status |-> 422, detail |-> "Unprocessable Entity"]
             ELSE IF Len(body.path) < 3
             THEN \* "password" not in identity
                  [status |-> 400, detail |-> "Unsupported authentication method"]
             ELSE \* password_data["user"], user_data["name"] or
                  \* user_data["password"] raises KeyError
                  [status |-> 500, detail |-> "Internal Server Error"]
       IN  resp' = [op |-> "malformed_login", status |-> outcome.status,
                    detail |-> outcome.detail, body |-> body,
                    token |-> {}, row |-> {}]
    /\ UNCHANGED <<now, identity, tokens, issued, compute, jwt>>

\* A token string with a signature made under another key
tamper(token) == [token EXCEPT !.sig = "another-key"]

\* Token strings a client can present: the ones it was given, the same with
\* a bad signature, a string that is no JWT, and the empty string
MalformedToken ==
    [claims |-> [sub |-> None, username |-> None, domain_id |-> None, project_id |-> None],
     exp |-> 0, sig |-> "malformed"]
\* The empty string (`not x_auth_token`)
EmptyToken == [MalformedToken EXCEPT !.sig = ""]
PresentableTokens ==
    issued \cup {tamper(t) : t \in issued} \cup {MalformedToken, EmptyToken}

\* response_data of validate_token: the user, and the project when the
\* payload names one that is stored
token_body(user, payload) ==
    [user |-> [id |-> user.id, name |-> user.name, domain_id |-> user.domain_id],
     project |-> IF payload.claims.project_id # None
                 THEN {p.id : p \in {x \in projects : x.id = payload.claims.project_id}}
                 ELSE {}]

\* GET /v3/auth/tokens with X-Subject-Token
ValidateToken(x_subject_token) ==
    LET payload == validate_token(x_subject_token, now)
        sub     == (CHOOSE x \in payload : TRUE).claims.sub
    IN  /\ IF payload = {}
           THEN resp' = [op |-> "validate", status |-> 404, detail |-> "Token not found",
                         token |-> x_subject_token, at |-> now, payload |-> {},
                         body |-> {}]
           ELSE \E user \in get_user(sub) :
                  IF user = {}
                  THEN resp' = [op |-> "validate", status |-> 404,
                                detail |-> "User not found",
                                token |-> x_subject_token, at |-> now,
                                payload |-> payload, body |-> {}]
                  ELSE resp' = [op |-> "validate", status |-> 200, detail |-> None,
                                token |-> x_subject_token, at |-> now,
                                payload |-> payload,
                                body |-> {token_body(CHOOSE u \in user : TRUE,
                                                     CHOOSE x \in payload : TRUE)}]
        /\ UNCHANGED <<now, identity, tokens, issued, compute, jwt>>

\* Revocation: the Token row holding the string is deleted from the store
RevokeToken(token) ==
    /\ \E r \in tokens : r.token_hash = token
    /\ tokens' = {r \in tokens : r.token_hash # token}
    /\ resp' = [op |-> "revoke", status |-> None, detail |-> None,
                token |-> token, at |-> now]
    /\ UNCHANGED <<now, identity, issued, compute, jwt>>

----------------------------------------------------------------------------
(* Domains, users and logins: an empty database, then any requests *)

NoResponse == [op |-> "none", status |-> None, detail |-> None]

\* bootstrap_keystone() is not running and has never run
NotBooting == [pc |-> "idle", domain |-> None, project |-> None,
               started |-> 0, complete |-> 0]

\* No concurrent bootstrap process has been started
NoRuns == [run \in 1..MaxProcs |-> [pc |-> "idle", domain |-> None, project |-> None,
                                    role |-> 1, pending |-> {}]]

Init ==
    /\ now = 0
    /\ domains = {} /\ projects = {} /\ project_seq = 0 /\ users = {}
    /\ roles = {} /\ boot = NotBooting /\ runs = NoRuns
    /\ tokens = {} /\ issued = {}
    /\ flavors = {} /\ servers = {} /\ server_seq = 0 /\ keypairs = {}
    /\ resp = NoResponse
    /\ jwt = [op |-> "none"]

Next ==
    \/ \E name \in DomainNames : CreateDomain(name)
    \/ \E name \in UserNames, pw \in Passwords, en \in BOOLEAN,
          d \in {None} \cup DomainIds :
         CreateUser(name, pw, en, d, None)
    \/ \E name \in LoginNames, pw \in Passwords, d \in LoginDomains,
          sc \in {NoScope, ProjectScope("no-such-project", None)} :
         Login(name, pw, d, sc, 0)
    \/ \E body \in MalformedBodies : MalformedLogin(body)

Spec == Init /\ [][Next]_vars

----------------------------------------------------------------------------
(* bootstrap.py: the database bootstrap_keystone() leaves *)

\* settings.admin_username, admin_password, admin_project
admin_username == "admin"
admin_password == "password"
admin_project  == "admin"

\* The rows bootstrap_keystone() inserts into an empty database
BootDomain  == [id |-> uuid("d-", 1), name |-> "Default"]
BootProject == [id |-> uuid("p-", 1), name |-> admin_project, domain_id |-> BootDomain.id]
BootUser    == [id |-> uuid("u-", 1), name |-> admin_username,
                password_hash |-> get_password_hash(admin_password, 1),
                enabled |-> TRUE, domain_id |-> BootDomain.id,
                default_project_id |-> BootProject.id]

\* roles = ["admin", "member", "reader"]
default_roles == <<"admin", "member", "reader">>
BootRoles == {[id |-> uuid("r-", i), name |-> default_roles[i]] : i \in 1..3}

InitBootstrapped ==
    /\ now = 0
    /\ domains = {BootDomain} /\ projects = {BootProject} /\ project_seq = 1
    /\ users = {BootUser}
    /\ roles = BootRoles
    /\ boot = [NotBooting EXCEPT !.started = 1, !.complete = 1]
    /\ runs = NoRuns
    /\ tokens = {} /\ issued = {}
    /\ flavors = {} /\ servers = {} /\ server_seq = 0 /\ keypairs = {}
    /\ resp = NoResponse
    /\ jwt = [op |-> "none"]

----------------------------------------------------------------------------
(* bootstrap.py: bootstrap_keystone() step by step.  Each create_* function *)
(* commits before it returns; a run may stop between two of them.           *)

\* db.query(Domain).filter(Domain.name == "Default").first()
boot_find_domain == first({d \in domains : d.name = "Default"})

\* db.query(Project).filter(Project.name == settings.admin_project).first()
boot_find_project == first({p \in projects : p.name = admin_project})

\* Mutant: the domain filter compares the domain's name
boot_find_user_by_domain_name(domain_id) ==
    first({u \in users : u.name = admin_username /\ u.domain_id = "Default"})

\* db.query(User).filter(User.name == settings.admin_username,
\*                       User.domain_id == domain.id).first()
boot_find_user(domain_id) ==
    first({u \in users : u.name = admin_username /\ u.domain_id = domain_id})

\* bootstrap_keystone() is called
BootStart ==
    /\ boot.pc = "idle"
    /\ boot.started < MaxRuns
    /\ boot' = [boot EXCEPT !.pc = "domain", !.started = @ + 1,
                            !.domain = None, !.project = None]
    /\ UNCHANGED <<now, domains, projects, project_seq, users, roles,
                   tokens, issued, compute, resp, jwt, runs>>

\* create_default_domain(db)
create_default_domain ==
    /\ boot.pc = "domain"
    /\ \E found \in boot_find_domain :
         LET domain == IF found = {}
                       THEN [id |-> uuid("d-", Cardinality(domains) + 1), name |-> "Default"]
                       ELSE CHOOSE d \in found : TRUE
         IN  /\ domains' = domains \cup {domain}
             /\ boot' = [boot EXCEPT !.pc = "project", !.domain = domain.id]
    /\ UNCHANGED <<now, projects, project_seq, users, roles,
                   tokens, issued, compute, resp, jwt, runs>>

\* create_admin_project(db, domain)
create_admin_project ==
    /\ boot.pc = "project"
    /\ \E found \in boot_find_project :
         LET project == IF found = {}
                        THEN [id |-> uuid("p-", project_seq + 1), name |-> admin_project,
                              domain_id |-> boot.domain]
                        ELSE CHOOSE x \in found : TRUE
         IN  /\ projects' = projects \cup {project}
             /\ project_seq' = IF found = {} THEN project_seq + 1 ELSE project_seq
             /\ boot' = [boot EXCEPT !.pc = "user", !.project = project.id]
    /\ UNCHANGED <<now, domains, users, roles, tokens, issued, compute, resp, jwt, runs>>

\* create_admin_user(db, domain, project)
create_admin_user ==
    /\ boot.pc = "user"
    /\ \E found \in boot_find_user(boot.domain) :
         /\ users' = IF found # {} THEN users
                     ELSE users \cup
                          {[id |-> uuid("u-", Cardinality(users) + 1),
                            name |-> admin_username,
                            password_hash |->
                                get_password_hash(admin_password, Cardinality(users) + 1),
                            enabled |-> TRUE, domain_id |-> boot.domain,
                            default_project_id |-> boot.project]}
         /\ boot' = [boot EXCEPT !.pc = "roles"]
    /\ UNCHANGED <<now, domains, projects, project_seq, roles,
                   tokens, issued, compute, resp, jwt, runs>>

\* The roles table after the loop of create_default_roles has handled the
\* first i names, starting from the table rs
RECURSIVE add_roles(_, _)
add_roles(rs, i) ==
    IF i = 0 THEN rs
    ELSE LET before == add_roles(rs, i - 1)
         IN  IF \E r \in before : r.name = default_roles[i] THEN before
             ELSE before \cup {[id |-> uuid("r-", Cardinality(before) + 1),
                                name |-> default_roles[i]]}

\* create_default_roles(db), the end of the run
create_default_roles ==
    /\ boot.pc = "roles"
    /\ roles' = add_roles(roles, Len(default_roles))
    /\ boot' = [boot EXCEPT !.pc = "idle", !.complete = @ + 1]
    /\ UNCHANGED <<now, domains, projects, project_seq, users,
                   tokens, issued, compute, resp, jwt, runs>>

\* The process stops between two steps of a run
BootAbort ==
    /\ boot.pc \in {"project", "user", "roles"}
    /\ boot' = [boot EXCEPT !.pc = "idle"]
    /\ UNCHANGED <<now, domains, projects, project_seq, users, roles,
                   tokens, issued, compute, resp, jwt, runs>>

\* Runs of bootstrap_keystone() on a database that starts empty, complete or
\* not, among requests that create domains, projects and users
NextBoot ==
    \/ BootStart
    \/ create_default_domain
    \/ create_admin_project
    \/ create_admin_user
    \/ create_default_roles
    \/ BootAbort
    \/ \E name \in DomainNames : CreateDomain(name)
    \/ CreateProject(admin_project, None)
    \/ \E en \in BOOLEAN : CreateUser(admin_username, admin_password, en, None, None)

SpecBoot == Init /\ [][NextBoot]_vars

----------------------------------------------------------------------------
(* Projects and the scope of a login, on the database bootstrap_keystone() *)
(* leaves                                                                  *)

NextScope ==
    \/ \E name \in ProjectNames, d \in {None} \cup DomainIds : CreateProject(name, d)
    \/ \E name \in LoginNames, pw \in Passwords, sc \in Scopes :
         Login(name, pw, "default", sc, 0)

SpecScope == InitBootstrapped /\ [][NextScope]_vars

----------------------------------------------------------------------------
(* The token lifecycle: the database bootstrap_keystone() leaves, then      *)
(* logins, introspection, revocation and the passing of time               *)
NextToken ==
    \/ Tick
    \/ TickDay
    \/ \E pw \in Passwords, sc \in Scopes, drift \in 0..MaxDrift :
         Login(admin_username, pw, "default", sc, drift)
    \/ \E t \in PresentableTokens : ValidateToken(t)
    \/ \E t \in issued : RevokeToken(t)

SpecToken == InitBootstrapped /\ [][NextToken]_vars

----------------------------------------------------------------------------
(* Projects and the references to them, on the database                    *)
(* bootstrap_keystone() leaves                                             *)

\* {project_identifier} of a request: a stored id, a name, or neither
ProjectIdentifiers == ProjectIds \cup ProjectNames \cup {"no-such-project"}

NextProject ==
    \/ CreateDomain("corp")
    \/ \E name \in ProjectNames, d \in {None} \cup DomainIds : CreateProject(name, d)
    \/ \E d \in {None} \cup DomainIds, dp \in {None, "no-such-project"} \cup ProjectIds :
         CreateUser("demo", admin_password, TRUE, d, dp)
    \/ \E id \in ProjectIdentifiers : GetProject(id)
    \/ \E id \in ProjectIdentifiers, name \in ProjectNames : UpdateProject(id, name)
    \/ \E id \in ProjectIdentifiers : DeleteProject(id)

SpecProject == InitBootstrapped /\ [][NextProject]_vars

----------------------------------------------------------------------------
(* Tokens that outlive their user: the user rows are deleted from the store *)
(* (the tokens table has no cascade and SQLite enforces no foreign key)     *)

\* db.query(User).delete()
PurgeUsers ==
    /\ users # {}
    /\ users' = {}
    /\ resp' = [op |-> "purge_users", status |-> None, detail |-> None]
    /\ UNCHANGED <<now, domains, projects, project_seq, seed, tokens, issued,
                   compute, jwt>>

NextOrphan ==
    \/ TickDay
    \/ \E pw \in Passwords, sc \in {NoScope, ProjectScope(None, admin_project)} :
         Login(admin_username, pw, "default", sc, 0)
    \/ \E t \in PresentableTokens : ValidateToken(t)
    \/ PurgeUsers

SpecOrphan ==
    /\ InitBootstrapped
    /\ [][NextOrphan]_vars

----------------------------------------------------------------------------
(* services/keystone/auth.py: get_current_user_info, the dependency of     *)
(* every Nova endpoint.  x_auth_token is the X-Auth-Token header.          *)

\* The 401 detail, or None when the token is accepted
auth_error(x_auth_token, t) ==
    IF x_auth_token = EmptyToken THEN "Authentication token required"
    ELSE IF verify_token(x_auth_token, t) = {} THEN "Invalid authentication token"
    ELSE None

\* The user_info dict of an accepted token: payload.get(key, default)
get_current_user_info(x_auth_token, t) ==
    LET c == (CHOOSE p \in verify_token(x_auth_token, t) : TRUE).claims
        get(v, dflt) == IF v = None THEN dflt ELSE v
    IN  [user_id    |-> get(c.sub, "default-user"),
         username   |-> get(c.username, "admin"),
         project_id |-> get(c.project_id, "default-project"),
         domain_id  |-> get(c.domain_id, "default-domain")]

Unauthorized(op, x_auth_token) ==
    [op |-> op, status |-> 401, detail |-> auth_error(x_auth_token, now),
     token |-> x_auth_token, at |-> now, body |-> {}]

NovaResponse(op, x_auth_token, status, detail, body) ==
    [op |-> op, status |-> status, detail |-> detail,
     token |-> x_auth_token, at |-> now, body |-> body]

----------------------------------------------------------------------------
(* services/nova/service.py: NovaService *)

FlavorNames == {"m1.small"}
ServerNames == {"web", "db"}

get_flavor(flavor_id) == first({f \in flavors : f.id = flavor_id})
get_flavor_by_name(flavor_name) == first({f \in flavors : f.name = flavor_name})

\* _resolve_flavor: by id, then by name
resolve_flavor(flavor_identifier) ==
    IF get_flavor(flavor_identifier) # {{}}
    THEN get_flavor(flavor_identifier)
    ELSE get_flavor_by_name(flavor_identifier)

get_server(server_id) == first({v \in servers : v.id = server_id})

get_server_by_name(server_name, project_id) ==
    first({v \in servers : v.name = server_name /\ v.project_id = project_id})

\* _resolve_server: by id, then (when a project_id is given) by name within
\* the project
resolve_server(server_identifier, project_id) ==
    IF get_server(server_identifier) # {{}}
    THEN get_server(server_identifier)
    ELSE IF project_id # None /\ project_id # ""
    THEN get_server_by_name(server_identifier, project_id)
    ELSE {{}}

list_servers(project_id) ==
    IF project_id # None /\ project_id # ""
    THEN {v \in servers : v.project_id = project_id}
    ELSE servers

\* The row create_server leaves once _simulate_server_boot has run
\* Mutant: the boot is not simulated
simulate_server_boot_skipped(server) == server

\* _simulate_server_boot(server)
simulate_server_boot(server) ==
    [server EXCEPT !.status = "ACTIVE", !.power_state = "Running",
                   !.task_state = None, !.vm_state = "active"]

\* The row create_server inserts and commits before the simulated boot
built_server(id, name, image_ref, flavor, user_id, project_id) ==
    [id |-> id, name |-> name, status |-> "BUILD", power_state |-> "NOSTATE",
     task_state |-> "spawning", vm_state |-> "building", flavor_id |-> flavor.id,
     image_id |-> image_ref, user_id |-> user_id, project_id |-> project_id]

booted_server(id, name, image_ref, flavor, user_id, project_id) ==
    simulate_server_boot(built_server(id, name, image_ref, flavor, user_id,
                                      project_id))

----------------------------------------------------------------------------
(* services/nova/router.py: the flavor and server endpoints *)

\* Flavor.id, a uuid4: an id that no flavor has and no server refers to
flavor_uuid ==
    LET taken == {f.id : f \in flavors} \cup {v.flavor_id : v \in servers}
    IN  uuid("f-", CHOOSE n \in 1..(Cardinality(taken) + 1) :
                     /\ uuid("f-", n) \notin taken
                     /\ \A m \in 1..(n - 1) : uuid("f-", m) \in taken)

\* The response to a request that names the resource in its body or path
NamedResponse(op, x_auth_token, name, status, detail, body) ==
    [op |-> op, status |-> status, detail |-> detail,
     token |-> x_auth_token, at |-> now, body |-> body, name |-> name]

\* POST /v2.1/flavors
CreateFlavor(x_auth_token, name) ==
    /\ IF auth_error(x_auth_token, now) # None
       THEN /\ resp' = NamedResponse("create_flavor", x_auth_token, name, 401,
                                     auth_error(x_auth_token, now), {})
            /\ UNCHANGED flavors
       ELSE \E existing \in get_flavor_by_name(name) :
              IF existing # {}
              THEN /\ resp' = NamedResponse("create_flavor", x_auth_token, name, 409,
                                            "Flavor already exists", {})
                   /\ UNCHANGED flavors
              ELSE LET f == [id |-> flavor_uuid, name |-> name]
                   IN  /\ flavors' = flavors \cup {f}
                       /\ resp' = NamedResponse("create_flavor", x_auth_token, name,
                                                200, None, {f})
    /\ UNCHANGED <<now, identity, tokens, issued, servers, server_seq, keypairs, jwt>>

\* Mutant: delete_flavor finds no server using the flavor
servers_using_flavor_none(flavor_id) == {{}}

\* delete_flavor: query(Server).filter(Server.flavor_id == db_flavor.id).first()
servers_using_flavor(flavor_id) ==
    first({v \in servers : v.flavor_id = flavor_id})

FlavorResponse(x_auth_token, flavor_identifier, status, detail, body) ==
    [op |-> "delete_flavor", status |-> status, detail |-> detail,
     token |-> x_auth_token, at |-> now, body |-> body,
     identifier |-> flavor_identifier]

\* DELETE /v2.1/flavors/{flavor_identifier}
DeleteFlavor(x_auth_token, flavor_identifier) ==
    /\ IF auth_error(x_auth_token, now) # None
       THEN /\ resp' = FlavorResponse(x_auth_token, flavor_identifier, 401,
                                      auth_error(x_auth_token, now), {})
            /\ UNCHANGED flavors
       ELSE \E db_flavor \in resolve_flavor(flavor_identifier) :
              IF db_flavor = {}
              THEN /\ resp' = FlavorResponse(x_auth_token, flavor_identifier, 404,
                                             "Flavor not found", {})
                   /\ UNCHANGED flavors
              ELSE \E using \in servers_using_flavor(
                                   (CHOOSE f \in db_flavor : TRUE).id) :
                     IF using # {}
                     THEN /\ resp' = FlavorResponse(x_auth_token, flavor_identifier,
                                                    409, "Flavor is in use by existing servers",
                                                    {})
                          /\ UNCHANGED flavors
                     ELSE /\ flavors' = flavors \ db_flavor
                          /\ resp' = FlavorResponse(x_auth_token, flavor_identifier,
                                                    204, None, db_flavor)
    /\ UNCHANGED <<now, identity, tokens, issued, servers, server_seq, keypairs, jwt>>

\* POST /v2.1/servers
CreateServer(x_auth_token, name, image_ref, flavor_ref) ==
    /\ server_seq < MaxServers
    /\ IF auth_error(x_auth_token, now) # None
       THEN /\ resp' = Unauthorized("create_server", x_auth_token)
            /\ UNCHANGED <<servers, server_seq>>
       ELSE LET user_info == get_current_user_info(x_auth_token, now)
            IN  \E flavor \in resolve_flavor(flavor_ref) :
                  IF flavor = {}
                  THEN /\ resp' = NovaResponse("create_server", x_auth_token, 400,
                                               "Flavor not found", {})
                       /\ UNCHANGED <<servers, server_seq>>
                  ELSE LET v == booted_server(uuid("s-", server_seq + 1), name,
                                              image_ref, CHOOSE f \in flavor : TRUE,
                                              user_info.user_id, user_info.project_id)
                       IN  /\ servers' = servers \cup {v}
                           /\ server_seq' = server_seq + 1
                           /\ resp' = NovaResponse("create_server", x_auth_token,
                                                   200, None, {v})
    /\ UNCHANGED <<now, identity, tokens, issued, flavors, keypairs, jwt>>

\* GET /v2.1/servers
ListServers(x_auth_token) ==
    /\ IF auth_error(x_auth_token, now) # None
       THEN resp' = Unauthorized("list_servers", x_auth_token)
       ELSE resp' = NovaResponse("list_servers", x_auth_token, 200, None,
                        list_servers(get_current_user_info(x_auth_token, now).project_id))
    /\ UNCHANGED <<now, identity, tokens, issued, compute, jwt>>

\* GET /v2.1/servers/{server_identifier}
GetServer(x_auth_token, server_identifier) ==
    /\ IF auth_error(x_auth_token, now) # None
       THEN resp' = Unauthorized("get_server", x_auth_token)
       ELSE LET user_info == get_current_user_info(x_auth_token, now)
            IN  \E server \in resolve_server(server_identifier, user_info.project_id) :
                  IF server = {} \/ \E v \in server : v.project_id # user_info.project_id
                  THEN resp' = NovaResponse("get_server", x_auth_token, 404,
                                            "Server not found", {})
                  ELSE resp' = NovaResponse("get_server", x_auth_token, 200, None, server)
    /\ UNCHANGED <<now, identity, tokens, issued, compute, jwt>>

\* PUT /v2.1/servers/{server_identifier}: the service renames and commits
\* the row it resolves, then the router compares the project
UpdateServer(x_auth_token, server_identifier, name) ==
    /\ IF auth_error(x_auth_token, now) # None
       THEN /\ resp' = Unauthorized("update_server", x_auth_token)
            /\ UNCHANGED servers
       ELSE LET user_info == get_current_user_info(x_auth_token, now)
            IN  \E server \in resolve_server(server_identifier, user_info.project_id) :
                  IF server = {}
                  THEN /\ resp' = NovaResponse("update_server", x_auth_token, 404,
                                               "Server not found", {})
                       /\ UNCHANGED servers
                  ELSE LET v       == CHOOSE x \in server : TRUE
                           updated == [v EXCEPT !.name = name]
                       IN  /\ servers' = (servers \ {v}) \cup {updated}
                           /\ IF updated.project_id # user_info.project_id
                              THEN resp' = NovaResponse("update_server", x_auth_token,
                                                        404, "Server not found", {})
                              ELSE resp' = NovaResponse("update_server", x_auth_token,
                                                        200, None, {updated})
    /\ UNCHANGED <<now, identity, tokens, issued, flavors, server_seq, keypairs, jwt>>

\* DELETE /v2.1/servers/{server_identifier}
DeleteServer(x_auth_token, server_identifier) ==
    /\ IF auth_error(x_auth_token, now) # None
       THEN /\ resp' = Unauthorized("delete_server", x_auth_token)
            /\ UNCHANGED servers
       ELSE LET user_info == get_current_user_info(x_auth_token, now)
            IN  \E server \in resolve_server(server_identifier, user_info.project_id) :
                  IF server = {}
                  THEN /\ resp' = NovaResponse("delete_server", x_auth_token, 404,
                                               "Server not found", {})
                       /\ UNCHANGED servers
                  ELSE /\ servers' = servers \ server
                       /\ resp' = NovaResponse("delete_server", x_auth_token, 204,
                                               None, server)
    /\ UNCHANGED <<now, identity, tokens, issued, flavors, server_seq, keypairs, jwt>>

\* The response to a POST /v2.1/servers/{server_identifier}/action
ActionResponse(x_auth_token, server_identifier, action, status, detail, body) ==
    [op |-> "server_action", status |-> status, detail |-> detail,
     token |-> x_auth_token, at |-> now, body |-> body,
     identifier |-> server_identifier, action |-> action]

\* Mutant: os-stop does not look at the server's status
server_after_stop_unguarded(action, v) ==
    IF action = "reboot"
    THEN IF v.status # "ACTIVE"
         THEN [conflict |-> "Server must be in ACTIVE state to reboot", row |-> v]
         ELSE [conflict |-> None,
               row |-> [v EXCEPT !.task_state = None, !.power_state = "Running"]]
    ELSE IF action = "os-start"
    THEN IF v.status \notin {"SHUTOFF", "STOPPED"}
         THEN [conflict |-> "Server must be in SHUTOFF state to start", row |-> v]
         ELSE [conflict |-> None,
               row |-> [v EXCEPT !.status = "ACTIVE", !.power_state = "Running",
                                 !.vm_state = "active", !.task_state = None]]
    ELSE [conflict |-> None,
          row |-> [v EXCEPT !.status = "SHUTOFF", !.power_state = "Shutdown",
                            !.vm_state = "stopped", !.task_state = None]]

\* The row reboot_server, start_server or stop_server leaves, or the 409
\* detail when the server's status does not allow the action
server_after(action, v) ==
    IF action = "reboot"
    THEN IF v.status # "ACTIVE"
         THEN [conflict |-> "Server must be in ACTIVE state to reboot", row |-> v]
         ELSE [conflict |-> None,
               row |-> [v EXCEPT !.task_state = None, !.power_state = "Running"]]
    ELSE IF action = "os-start"
    THEN IF v.status \notin {"SHUTOFF", "STOPPED"}
         THEN [conflict |-> "Server must be in SHUTOFF state to start", row |-> v]
         ELSE [conflict |-> None,
               row |-> [v EXCEPT !.status = "ACTIVE", !.power_state = "Running",
                                 !.vm_state = "active", !.task_state = None]]
    ELSE IF v.status # "ACTIVE"
         THEN [conflict |-> "Server must be in ACTIVE state to stop", row |-> v]
         ELSE [conflict |-> None,
               row |-> [v EXCEPT !.status = "SHUTOFF", !.power_state = "Shutdown",
                                 !.vm_state = "stopped", !.task_state = None]]

ServerActions == {"reboot", "os-start", "os-stop"}

\* POST /v2.1/servers/{server_identifier}/action.  The router resolves the
\* server and compares its project, then the service resolves it again.
ServerAction(x_auth_token, server_identifier, action) ==
    /\ IF auth_error(x_auth_token, now) # None
       THEN /\ resp' = ActionResponse(x_auth_token, server_identifier, action, 401,
                                      auth_error(x_auth_token, now), {})
            /\ UNCHANGED servers
       ELSE LET user_info == get_current_user_info(x_auth_token, now)
            IN  \E server \in resolve_server(server_identifier, user_info.project_id),
                   db_server \in resolve_server(server_identifier, user_info.project_id) :
                  IF server = {} \/ \E v \in server : v.project_id # user_info.project_id
                  THEN /\ resp' = ActionResponse(x_auth_token, server_identifier, action,
                                                 404, "Server not found", {})
                       /\ UNCHANGED servers
                  ELSE IF action \notin ServerActions
                  THEN /\ resp' = ActionResponse(x_auth_token, server_identifier, action,
                                                 400, "Unsupported server action", {})
                       /\ UNCHANGED servers
                  ELSE LET v     == CHOOSE x \in db_server : TRUE
                           after == server_after(action, v)
                       IN  IF after.conflict # None
                           THEN /\ resp' = ActionResponse(x_auth_token, server_identifier,
                                                          action, 409, after.conflict, {})
                                /\ UNCHANGED servers
                           ELSE /\ servers' = (servers \ {v}) \cup {after.row}
                                /\ resp' = ActionResponse(x_auth_token, server_identifier,
                                                          action, 202, None, {after.row})
    /\ UNCHANGED <<now, identity, tokens, issued, flavors, server_seq, keypairs, jwt>>

KeypairNames == {"laptop"}

\* KeyPair.id, a uuid4: an id that no key pair has
keypair_uuid ==
    LET taken == {k.id : k \in keypairs}
    IN  uuid("k-", CHOOSE n \in 1..(Cardinality(taken) + 1) :
                     /\ uuid("k-", n) \notin taken
                     /\ \A m \in 1..(n - 1) : uuid("k-", m) \in taken)

\* Mutant: the lookup by name and user finds nothing
get_keypair_none(keypair_name, user_id) == {{}}

\* get_keypair(keypair_name, user_id), also the `existing` of create_keypair
get_keypair(keypair_name, user_id) ==
    first({k \in keypairs : k.name = keypair_name /\ k.user_id = user_id})

\* POST /v2.1/os-keypairs
CreateKeypair(x_auth_token, name) ==
    /\ IF auth_error(x_auth_token, now) # None
       THEN /\ resp' = NamedResponse("create_keypair", x_auth_token, name, 401,
                                     auth_error(x_auth_token, now), {})
            /\ UNCHANGED keypairs
       ELSE LET user_id == get_current_user_info(x_auth_token, now).user_id
            IN  \E existing \in get_keypair(name, user_id) :
                  IF existing # {}
                  THEN /\ resp' = NamedResponse("create_keypair", x_auth_token, name,
                                                409, "Key pair already exists", {})
                       /\ UNCHANGED keypairs
                  ELSE LET k == [id |-> keypair_uuid, name |-> name,
                                 user_id |-> user_id]
                       IN  /\ keypairs' = keypairs \cup {k}
                           /\ resp' = NamedResponse("create_keypair", x_auth_token,
                                                    name, 200, None, {k})
    /\ UNCHANGED <<now, identity, tokens, issued, flavors, servers, server_seq, jwt>>

\* DELETE /v2.1/os-keypairs/{keypair_name}
DeleteKeypair(x_auth_token, keypair_name) ==
    /\ IF auth_error(x_auth_token, now) # None
       THEN /\ resp' = NamedResponse("delete_keypair", x_auth_token, keypair_name,
                                     401, auth_error(x_auth_token, now), {})
            /\ UNCHANGED keypairs
       ELSE LET user_id == get_current_user_info(x_auth_token, now).user_id
            IN  \E db_keypair \in get_keypair(keypair_name, user_id) :
                  IF db_keypair = {}
                  THEN /\ resp' = NamedResponse("delete_keypair", x_auth_token,
                                                keypair_name, 404,
                                                "Key pair not found", {})
                       /\ UNCHANGED keypairs
                  ELSE /\ keypairs' = keypairs \ db_keypair
                       /\ resp' = NamedResponse("delete_keypair", x_auth_token,
                                                keypair_name, 202, None, db_keypair)
    /\ UNCHANGED <<now, identity, tokens, issued, flavors, servers, server_seq, jwt>>

\* list_keypairs(user_id)
list_keypairs(user_id) == {k \in keypairs : k.user_id = user_id}

----------------------------------------------------------------------------
(* The list endpoints.  x_auth_token is the X-Auth-Token header of the     *)
(* request: {} when the request has none, else the set of its value.       *)

\* The endpoints whose handler depends on get_current_user_info
NovaLists == {"/v2.1/flavors", "/v2.1/servers", "/v2.1/os-keypairs"}

\* The endpoints whose handler depends on the KeystoneService only
KeystoneLists == {"/v3/projects", "/v3/users"}

ListResponse(endpoint, x_auth_token, status, detail, body) ==
    [op |-> "list", endpoint |-> endpoint, header |-> x_auth_token,
     status |-> status, detail |-> detail, body |-> body]

\* GET on one of the list endpoints
List(endpoint, x_auth_token) ==
    /\ IF endpoint \in KeystoneLists
       THEN resp' = ListResponse(endpoint, x_auth_token, 200, None,
                                 IF endpoint = "/v3/projects"
                                 THEN {p.id : p \in list_projects}
                                 ELSE {u.id : u \in users})
       ELSE IF x_auth_token = {}
       THEN \* Header(...): the header is required
            resp' = ListResponse(endpoint, x_auth_token, 422, "Field required", {})
       ELSE LET token == CHOOSE t \in x_auth_token : TRUE
            IN  IF auth_error(token, now) # None
                THEN resp' = ListResponse(endpoint, x_auth_token, 401,
                                          auth_error(token, now), {})
                ELSE LET user_info == get_current_user_info(token, now)
                     IN  resp' = ListResponse(endpoint, x_auth_token, 200, None,
                            IF endpoint = "/v2.1/flavors" THEN {f.id : f \in flavors}
                            ELSE IF endpoint = "/v2.1/servers"
                            THEN {v.id : v \in list_servers(user_info.project_id)}
                            ELSE {k.name : k \in list_keypairs(user_info.user_id)})
    /\ UNCHANGED <<now, identity, tokens, issued, compute, jwt>>

NextProtected ==
    \/ \E sc \in {NoScope, ProjectScope(BootProject.id, None)} :
         Login(admin_username, admin_password, "default", sc, 0)
    \/ \E t \in issued, name \in FlavorNames : CreateFlavor(t, name)
    \/ \E t \in issued, name \in ServerNames, f \in FlavorNames :
         CreateServer(t, name, "ubuntu-22", f)
    \/ \E t \in issued, name \in KeypairNames : CreateKeypair(t, name)
    \/ \E e \in NovaLists \cup KeystoneLists,
          h \in {{}} \cup {{t} : t \in PresentableTokens} :
         List(e, h)

SpecProtected == InitBootstrapped /\ [][NextProtected]_vars

----------------------------------------------------------------------------
(* The compute service behind the identity service: the bootstrapped        *)
(* database, logins of the admin user, revocation, and server requests     *)

ServerIdentifiers ==
    {v.id : v \in servers} \cup {v.name : v \in servers} \cup {"no-such-server"}

ServerOps == {"create_server", "list_servers", "get_server", "update_server",
              "delete_server"}

NextNova ==
    \/ TickDay
    \/ \E sc \in {NoScope, ProjectScope(BootProject.id, None)} :
         Login(admin_username, admin_password, "default", sc, 0)
    \/ \E t \in issued : RevokeToken(t)
    \/ \E t \in PresentableTokens, name \in FlavorNames : CreateFlavor(t, name)
    \/ \E t \in PresentableTokens, name \in ServerNames, f \in FlavorNames :
         CreateServer(t, name, "ubuntu-22", f)
    \/ \E t \in PresentableTokens : ListServers(t)
    \/ \E t \in PresentableTokens, i \in ServerIdentifiers : GetServer(t, i)
    \/ \E t \in PresentableTokens, i \in ServerIdentifiers, name \in ServerNames :
         UpdateServer(t, i, name)
    \/ \E t \in PresentableTokens, i \in ServerIdentifiers : DeleteServer(t, i)

SpecNova == InitBootstrapped /\ [][NextNova]_vars

----------------------------------------------------------------------------
(* Servers of two projects: the bootstrapped database, a second project,   *)
(* logins scoped to either, and requests on the servers                    *)

NextIsolation ==
    \/ CreateProject("demo", None)
    \/ \E p \in ProjectIds :
         Login(admin_username, admin_password, "default", ProjectScope(p, None), 0)
    \/ \E t \in issued, name \in FlavorNames : CreateFlavor(t, name)
    \/ \E t \in issued, name \in ServerNames, f \in FlavorNames :
         CreateServer(t, name, "ubuntu-22", f)
    \/ \E t \in issued, i \in ServerIdentifiers : GetServer(t, i)
    \/ \E t \in issued, i \in ServerIdentifiers, name \in ServerNames :
         UpdateServer(t, i, name)
    \/ \E t \in issued, i \in ServerIdentifiers : DeleteServer(t, i)
    \/ \E t \in issued, i \in ServerIdentifiers,
          a \in ServerActions \cup {"os-resize"} :
         ServerAction(t, i, a)

SpecIsolation == InitBootstrapped /\ [][NextIsolation]_vars

----------------------------------------------------------------------------
(* create_access_token and verify_token on their own: any claims, any      *)
(* expires_delta, verification at any later time                           *)

JwtClaims ==
    {[sub |-> "u-1", username |-> "admin", domain_id |-> "d-1", project_id |-> p] :
        p \in {None, "p-1"}}

\* expires_delta: None, timedelta(0), or a positive number of ticks
JwtDeltas == {{}} \cup {{d} : d \in 0..MaxTtl}

JwtIssue(data, expires_delta) ==
    /\ jwt' = [op |-> "issue", data |-> data, expires_delta |-> expires_delta,
               issued_at |-> now,
               token |-> create_access_token(data, expires_delta, now)]
    /\ UNCHANGED <<now, identity, tokens, issued, compute, resp>>

JwtVerify ==
    /\ jwt.op \in {"issue", "verify"}
    /\ jwt' = [op |-> "verify", data |-> jwt.data, expires_delta |-> jwt.expires_delta,
               issued_at |-> jwt.issued_at, token |-> jwt.token,
               at |-> now, payload |-> verify_token(jwt.token, now)]
    /\ UNCHANGED <<now, identity, tokens, issued, compute, resp>>

JwtTick ==
    /\ now < MaxJwtClock
    /\ now' = now + 1
    /\ UNCHANGED <<identity, tokens, issued, compute, resp, jwt>>

NextJwt ==
    \/ JwtTick
    \/ \E data \in JwtClaims, delta \in JwtDeltas : JwtIssue(data, delta)
    \/ JwtVerify

SpecJwt == Init /\ [][NextJwt]_vars

----------------------------------------------------------------------------
(* Properties *)

\* The login of the last response passed authenticate_user
Authenticated ==
    /\ resp.found # {}
    /\ \A u \in resp.found :
         u.enabled /\ verify_password(resp.req.password, u.password_hash)

InvalidCredentials ==
    [status |-> 401, detail |-> "Invalid authentication credentials"]

LastStatus == [status |-> resp.status, detail |-> resp.detail]

\* No Token row holds the string
NoRecord(t) == ~\E r \in tokens : r.token_hash = t

\* C1: a login (without scope) of an existing, enabled user with the matching
\* password succeeds, and the token it returns, validated at once, yields
\* claims whose sub is that user's id.
C1_ValidLoginIsIntrospected ==
    (resp.op = "login" /\ resp.req.scope = NoScope /\ Authenticated)
    => /\ resp.status = 200
       /\ \E t \in resp.token : \E p \in validate_token(t, resp.at) :
            \A u \in resp.found : p.claims.sub = u.id

\* C4: a login whose name finds no user, and a login whose password does not
\* match the user found, get the same answer: 401 with the one fixed detail,
\* and no token.
C4_NonEnumeration ==
    (/\ resp.op = "login"
     /\ \/ resp.found = {}
        \/ \E u \in resp.found :
             ~verify_password(resp.req.password, u.password_hash))
    => LastStatus = InvalidCredentials /\ resp.token = {}

C4_Witness ==
    /\ resp.op = "login" /\ resp.status = 401
    /\ \E u \in resp.found : ~verify_password(resp.req.password, u.password_hash)
    /\ resp.token = {}

\* C5: a login that resolves to a disabled user is answered like a wrong
\* password (401, same detail) and stores no Token row, also with the right
\* password; no Token row belongs to a disabled user.
C5_DisabledUserGetsNoToken ==
    /\ (resp.op = "login" /\ \E u \in resp.found : ~u.enabled)
       => LastStatus = InvalidCredentials /\ resp.token = {} /\ resp.row = {}
    /\ \A r \in tokens : \A u \in users : u.id = r.user_id => u.enabled

C5_Witness ==
    /\ resp.op = "login"
    /\ \E u \in resp.found :
         ~u.enabled /\ verify_password(resp.req.password, u.password_hash)

\* C6: a login naming the domain "default" while no stored domain's name is
\* "default" in any letter case is answered 404.
C6_MissingDefaultDomainIs404 ==
    (/\ resp.op = "login" /\ resp.req.domain = "default"
     /\ ~\E d \in domains : lower(d.name) = "default")
    => resp.status = 404

\* The project spec of a scope resolves no stored project
Unresolved(spec) ==
    IF spec.id # None THEN ~\E p \in projects : p.id = spec.id
    ELSE IF spec.name # None THEN ~\E p \in projects : p.name = spec.name
    ELSE TRUE

\* C7: an authenticated login asking for a project scope that resolves no
\* project is answered 404 "Project not found" and returns no token; the step
\* leaves the Token table as it was.
C7_UnresolvedScopeIs404 ==
    /\ []((/\ resp.op = "login" /\ Authenticated
           /\ \E spec \in resp.req.scope : Unresolved(spec))
          => /\ LastStatus = [status |-> 404, detail |-> "Project not found"]
             /\ resp.token = {} /\ resp.row = {})
    /\ [][(resp'.op = "login" /\ resp'.status = 404)
          => tokens' = tokens /\ issued' = issued]_vars

C7_Witness ==
    /\ resp.op = "login" /\ resp.status = 404 /\ Authenticated
    /\ \E spec \in resp.req.scope : spec.name = "ghost"
    /\ tokens # {}

\* The project a scope asked for
Matches(spec, project) ==
    IF spec.id # None THEN project.id = spec.id ELSE project.name = spec.name

\* C9: after a successful login the project_id claim the token is
\* introspected with, and the project_id of the Token row, are the id of the
\* stored project the scope named (by id or by name); without a scope the
\* claims carry no project_id and the row's project_id is null.
C9_ProjectIdReflectsScope ==
    (resp.op = "login" /\ resp.status = 200)
    => \E t \in resp.token, r \in resp.row :
         /\ r \in tokens /\ r.token_hash = t
         /\ \E p \in validate_token(t, resp.at) :
              IF resp.req.scope = NoScope
              THEN /\ p.claims.project_id = None
                   /\ r.project_id = None
                   /\ resp.project = {}
              ELSE \E spec \in resp.req.scope, project \in resp.project :
                     /\ project \in projects
                     /\ Matches(spec, project)
                     /\ p.claims.project_id = project.id
                     /\ r.project_id = project.id

C9_Witness ==
    /\ resp.op = "login" /\ resp.status = 200
    /\ \E spec \in resp.req.scope : spec.name = "admin" /\ spec.id = None
    /\ \E r \in resp.row : r.project_id = BootProject.id

\* The acceptance condition: the string decodes unexpired and a Token row
\* with exactly that token_hash has an expires_at later than the clock
Acceptable(t, at) ==
    /\ verify_token(t, at) # {}
    /\ \E r \in tokens : r.token_hash = t /\ r.expires_at > at

ValidatesIffAcceptable ==
    resp.op = "validate" => (resp.status = 200 <=> Acceptable(resp.token, resp.at))

\* C2 (as worded): validation accepts a string exactly when it decodes
\* unexpired and a Token row with that token_hash and a later expires_at
\* exists; once an issued string has no row, validating it fails from then on.
C2_RevokedNeverValidatesAgain ==
    /\ []ValidatesIffAcceptable
    /\ [][\A t \in issued : NoRecord(t) => (validate_token(t, now) = {})']_vars

\* C2: validation accepts a string exactly when it decodes unexpired and a
\* Token row with that token_hash and a later expires_at exists; right after
\* the row is deleted validating the string fails, and a row for a deleted
\* string comes back only by a login that returns that same string.
C2_ValidatesIffStored ==
    /\ []ValidatesIffAcceptable
    /\ [](resp.op = "revoke"
          => NoRecord(resp.token) /\ validate_token(resp.token, now) = {})
    /\ [][\A t \in issued : (NoRecord(t) /\ ~NoRecord(t)')
            => resp'.op = "login" /\ resp'.status = 200 /\ resp'.token = {t}]_vars

C2_Witness ==
    /\ resp.op = "validate" /\ resp.status = 404
    /\ resp.token \in issued
    /\ verify_token(resp.token, resp.at) # {}
    /\ NoRecord(resp.token)

\* C3: a compute request whose token has a bad signature, or is expired, or
\* has no Token row, is answered 401.
C3_ComputeRejectsUnstoredTokens ==
    (/\ resp.op \in ServerOps \cup {"create_flavor"}
     /\ \/ resp.token.sig # secret_key
        \/ resp.token.exp < timegm(resp.at)
        \/ NoRecord(resp.token))
    => resp.status = 401

\* C8: a server request (list, create, read, update, delete) carrying a
\* verified token without a project_id is answered 404, and no server is
\* stored by such a request.
C8_UnscopedTokenIsNotFound ==
    (/\ resp.op \in ServerOps
     /\ verify_token(resp.token, resp.at) # {}
     /\ resp.token.claims.project_id = None)
    => resp.status = 404

\* C10: for a positive ttl, verify_token(create_access_token(claims, ttl))
\* returns the claims at every time before issuance + ttl and fails at every
\* time after issuance + ttl.
C10_ExpiresRightAfterTtl ==
    (jwt.op = "verify" /\ \E d \in jwt.expires_delta : d > 0)
    => \A d \in jwt.expires_delta :
         /\ jwt.at < jwt.issued_at + d
              => \E p \in jwt.payload : p.claims = jwt.data
         /\ jwt.at > jwt.issued_at + d => jwt.payload = {}

\* C11: a token issued with a zero-length expires_delta never verifies: every
\* verify_token of it fails.
C11_ZeroTtlNeverVerifies ==
    (jwt.op = "verify" /\ jwt.expires_delta = {0}) => jwt.payload = {}

\* C12: every Token row's expires_at is its created_at plus exactly 24 hours
\* and is the expiry embedded in the signed string, also when the clock moves
\* between the steps of create_token.
C12_ExpiresAtIsCreatedAtPlusTtl ==
    \A r \in tokens :
      /\ r.expires_at = r.created_at + HOURS(TOKEN_TTL_HOURS)
      /\ r.expires_at = r.token_hash.exp * TicksPerSecond

\* A complete run of bootstrap_keystone() has happened
Bootstrapped == boot.complete >= 1

C14_OrphanTokenIsUserNotFound ==
    /\ (/\ resp.op = "validate"
        /\ Acceptable(resp.token, resp.at)
        /\ ~\E u \in users : u.id = resp.token.claims.sub)
       => /\ LastStatus = [status |-> 404, detail |-> "User not found"]
          /\ resp.body = {}
    /\ (resp.op = "validate" /\ ~Acceptable(resp.token, resp.at))
       => /\ LastStatus = [status |-> 404, detail |-> "Token not found"]
          /\ resp.body = {}

C14_Witness ==
    /\ resp.op = "validate" /\ resp.detail = "User not found"
    /\ resp.token \in issued
    /\ Acceptable(resp.token, resp.at)
    /\ users = {}

\* C15: a POST /v3/auth/tokens whose identity has no well-formed password
\* method (no "password" key, or a password section without user, name or
\* password) is answered 400 or 422, returns no token and stores no Token row.
C15_MalformedAuthIsClientError ==
    resp.op = "malformed_login"
    => resp.status \in {400, 422} /\ resp.token = {} /\ resp.row = {}

\* C16: no two User rows share the same (name, domain_id), so that
\* get_user_by_name finds at most one user.
C16_UserNameUniquePerDomain ==
    \A u, v \in users :
      (u.name = v.name /\ u.domain_id = v.domain_id) => u = v

\* C17: every User.domain_id is the id of a stored Domain and every non-null
\* User.default_project_id is the id of a stored Project.
C17_UserReferencesExist ==
    \A u \in users :
      /\ u.domain_id \in DomainIds
      /\ u.default_project_id # None => u.default_project_id \in ProjectIds

\* The projects a request's identifier names, by id or by name
Named(project_identifier, table) ==
    {p \in table : p.id = project_identifier \/ p.name = project_identifier}

\* C20: GET, PATCH and DELETE on /v3/projects/{identifier} act on the project
\* that has the identifier as id or as name (200 for GET and PATCH, 204 for
\* DELETE); when there is none the answer is 404 "Project not found" and the
\* projects table stays as it was.
C20_ProjectResolvedByIdOrName ==
    resp.op \in {"get_project", "update_project", "delete_project"}
    => IF Named(resp.identifier, resp.before) # {}
       THEN resp.status = IF resp.op = "delete_project" THEN 204 ELSE 200
       ELSE /\ LastStatus = [status |-> 404, detail |-> "Project not found"]
            /\ projects = resp.before

\* C18: a GET, PUT, DELETE or action request made with a token scoped to one
\* project leaves the rows of the servers of every other project as they
\* were, and when it is answered with success the server it acted on belongs
\* to the token's project (a server of another project is answered 404).
C18_CrossProjectIsolation ==
    [][(/\ resp'.op \in {"get_server", "update_server", "delete_server",
                         "server_action"}
        /\ resp'.token.claims.project_id # None)
       => /\ \A v \in servers :
               v.project_id # resp'.token.claims.project_id => v \in servers'
          /\ resp'.status \in {200, 202, 204}
               => \A b \in resp'.body :
                    b.project_id = resp'.token.claims.project_id]_vars

\* C19: a GET on /v2.1/flavors, /v2.1/servers, /v2.1/os-keypairs, /v3/projects
\* or /v3/users without an X-Auth-Token header is answered 401 or 422 and
\* returns no resource data.
C19_ListsRequireToken ==
    (resp.op = "list" /\ resp.header = {})
    => resp.status \in {401, 422} /\ resp.body = {}

\* The statuses in which a server accepts an action
Accepts(action) ==
    IF action = "os-start" THEN {"SHUTOFF", "STOPPED"} ELSE {"ACTIVE"}

\* The status an accepted action leaves
Leaves(action) == IF action = "os-stop" THEN "SHUTOFF" ELSE "ACTIVE"

\* The servers a request of the token's project may address by the identifier
Addressed(identifier, project_id) ==
    {v \in servers : /\ v.project_id = project_id
                     /\ v.id = identifier \/ v.name = identifier}

----------------------------------------------------------------------------
(* Flavors in use: the bootstrapped database, scoped logins of the admin   *)
(* user, and requests that create and delete flavors and servers           *)

FlavorIdentifiers ==
    {f.id : f \in flavors} \cup {f.name : f \in flavors} \cup {"no-such-flavor"}

NextFlavor ==
    \/ \E sc \in {NoScope, ProjectScope(BootProject.id, None)} :
         Login(admin_username, admin_password, "default", sc, 0)
    \/ \E t \in issued, name \in FlavorNames : CreateFlavor(t, name)
    \/ \E t \in issued, name \in ServerNames, f \in FlavorIdentifiers :
         CreateServer(t, name, "ubuntu-22", f)
    \/ \E t \in issued, i \in ServerIdentifiers : DeleteServer(t, i)
    \/ \E t \in PresentableTokens, i \in FlavorIdentifiers : DeleteFlavor(t, i)

SpecFlavor == InitBootstrapped /\ [][NextFlavor]_vars

\* The flavors a DELETE /v2.1/flavors/{identifier} may resolve
Resolved(identifier) ==
    IF \E f \in flavors : f.id = identifier
    THEN {f \in flavors : f.id = identifier}
    ELSE {f \in flavors : f.name = identifier}

InUse(f) == \E v \in servers : v.flavor_id = f.id

----------------------------------------------------------------------------
(* Key pairs of two users: the bootstrapped database, a second user, logins *)
(* of both, and requests that create and delete key pairs and flavors       *)

NextKeypair ==
    \/ CreateUser("demo", "hunter2", TRUE, None, None)
    \/ \E name \in {admin_username, "demo"}, password \in Passwords :
         Login(name, password, "default", NoScope, 0)
    \/ \E t \in PresentableTokens, name \in KeypairNames : CreateKeypair(t, name)
    \/ \E t \in PresentableTokens, name \in KeypairNames \cup {"no-such-keypair"} :
         DeleteKeypair(t, name)
    \/ \E t \in PresentableTokens, name \in FlavorNames : CreateFlavor(t, name)

SpecKeypair == InitBootstrapped /\ [][NextKeypair]_vars

\* The user a request is made as
Caller(r) == get_current_user_info(r.token, r.at).user_id

----------------------------------------------------------------------------
(* The service catalog: the bootstrapped database and logins of the admin  *)
(* user sent to the server under any of its addresses                      *)

Schemes == {"http", "https"}
Hosts   == {"localhost", "127.0.0.1", "keystone.example"}
Ports   == {{}, {5000}, {5001}, {8080}}
Urls    == {Url(s, h, p) : s \in Schemes, h \in Hosts, p \in Ports}

NextCatalog ==
    \/ Tick
    \/ \E url \in Urls, password \in Passwords,
          sc \in {NoScope, ProjectScope(BootProject.id, None)} :
         LoginVia(url, admin_username, password, "default", sc, 0)
    \/ \E t \in issued : RevokeToken(t)

SpecCatalog == InitBootstrapped /\ [][NextCatalog]_vars

\* The catalog whose endpoints are at the base URL of the request
CatalogAt(base_url) ==
    <<CatalogEntry("identity", "keystone", base_url, "/v3"),
      CatalogEntry("compute", "nova", base_url, "/v2.1"),
      CatalogEntry("network", "neutron", base_url, "/v2.0"),
      CatalogEntry("image", "glance", base_url, "/v2")>>

\* C24: the catalog of a successful login lists identity, compute, network and
\* image in this order, each with one "public" endpoint whose URL is the base
\* URL of the request, host and port as the client wrote them, followed by
\* /v3, /v2.1, /v2.0 and /v2.
C24_CatalogFollowsRequestUrl ==
    (resp.op = "login" /\ resp.status = 200)
    => resp.catalog = CatalogAt(base_url_of(resp.url))

C26_ValidLoginAddsOneToken ==
    [][(/\ resp' # resp /\ resp'.op = "login" /\ Authenticated'
        /\ \A spec \in resp'.req.scope : ~Unresolved(spec))
       => /\ resp'.status = 200
          /\ \E r \in resp'.row : r \notin tokens /\ tokens' = tokens \cup {r}]_vars

\* C27: every Token row agrees with the string it holds: the sub claim is the
\* row's user_id and the id of a stored user, the username and domain_id
\* claims are those of that user when the token was issued, and the project_id
\* claim is the row's project_id (absent exactly when that is null); no step
\* changes a Token row once it is stored.
C27_TokenRowAgreesWithString ==
    [][/\ \A r \in tokens' :
            /\ r.token_hash.claims.sub = r.user_id
            /\ \E u \in users' : u.id = r.user_id
            /\ r.token_hash.claims.project_id = r.project_id
       /\ (resp' # resp /\ resp'.op = "login" /\ resp'.status = 200)
            => \E r \in resp'.row, u \in resp'.found :
                 /\ r \in tokens' /\ r \notin tokens
                 /\ r.user_id = u.id
                 /\ r.token_hash.claims.username = u.name
                 /\ r.token_hash.claims.domain_id = u.domain_id
       /\ \A r \in tokens, q \in tokens' : q.token_hash = r.token_hash => q = r]_vars

\* A scoped and an unscoped token are stored
C27_Witness ==
    /\ resp.op = "login" /\ resp.status = 200
    /\ \E r \in tokens : r.project_id = None
    /\ \E r \in tokens : r.project_id # None

----------------------------------------------------------------------------
(* bootstrap.py run by several processes on one database.  Each process    *)
(* has its own session; each query and each commit is one step, and        *)
(* another process may run between the query of a create_* function and    *)
(* its commit.  The roles added by create_default_roles reach the table at *)
(* its db.commit().                                                         *)

Procs == 1..MaxProcs

\* The process moves on: its locals are updated
Goto(run, locals) == runs' = [runs EXCEPT ![run] = locals]

\* bootstrap_keystone() is called in a process
RaceStart(run) ==
    /\ runs[run].pc = "idle"
    /\ Goto(run, [runs[run] EXCEPT !.pc = "domain"])
    /\ UNCHANGED <<now, domains, projects, project_seq, users, roles, boot,
                   tokens, issued, compute, resp, jwt>>

\* create_default_domain: the query
race_find_domain(run) ==
    /\ runs[run].pc = "domain"
    /\ \E found \in boot_find_domain :
         IF found = {}
         THEN Goto(run, [runs[run] EXCEPT !.pc = "domain_commit"])
         ELSE Goto(run, [runs[run] EXCEPT !.pc = "project",
                                          !.domain = (CHOOSE d \in found : TRUE).id])
    /\ UNCHANGED <<now, domains, projects, project_seq, users, roles, boot,
                   tokens, issued, compute, resp, jwt>>

\* create_default_domain: db.add(domain); db.commit().  Domain.name is
\* unique=True: the commit raises IntegrityError when the name is stored, and
\* bootstrap_keystone() ends with that exception.
race_commit_domain(run) ==
    /\ runs[run].pc = "domain_commit"
    /\ IF \E d \in domains : d.name = "Default"
       THEN /\ Goto(run, [runs[run] EXCEPT !.pc = "failed"])
            /\ UNCHANGED domains
       ELSE LET domain == [id |-> uuid("d-", Cardinality(domains) + 1),
                           name |-> "Default"]
            IN  /\ domains' = domains \cup {domain}
                /\ Goto(run, [runs[run] EXCEPT !.pc = "project",
                                               !.domain = domain.id])
    /\ UNCHANGED <<now, projects, project_seq, users, roles, boot,
                   tokens, issued, compute, resp, jwt>>

\* create_admin_project: the query
race_find_project(run) ==
    /\ runs[run].pc = "project"
    /\ \E found \in boot_find_project :
         IF found = {}
         THEN Goto(run, [runs[run] EXCEPT !.pc = "project_commit"])
         ELSE Goto(run, [runs[run] EXCEPT !.pc = "user",
                                          !.project = (CHOOSE x \in found : TRUE).id])
    /\ UNCHANGED <<now, domains, projects, project_seq, users, roles, boot,
                   tokens, issued, compute, resp, jwt>>

\* create_admin_project: db.add(project); db.commit()
race_commit_project(run) ==
    /\ runs[run].pc = "project_commit"
    /\ LET project == [id |-> uuid("p-", project_seq + 1), name |-> admin_project,
                       domain_id |-> runs[run].domain]
       IN  /\ projects' = projects \cup {project}
           /\ project_seq' = project_seq + 1
           /\ Goto(run, [runs[run] EXCEPT !.pc = "user", !.project = project.id])
    /\ UNCHANGED <<now, domains, users, roles, boot,
                   tokens, issued, compute, resp, jwt>>

\* create_admin_user: the query
race_find_user(run) ==
    /\ runs[run].pc = "user"
    /\ \E found \in boot_find_user(runs[run].domain) :
         IF found = {}
         THEN Goto(run, [runs[run] EXCEPT !.pc = "user_commit"])
         ELSE Goto(run, [runs[run] EXCEPT !.pc = "roles"])
    /\ UNCHANGED <<now, domains, projects, project_seq, users, roles, boot,
                   tokens, issued, compute, resp, jwt>>

\* create_admin_user: db.add(admin_user); db.commit()
race_commit_user(run) ==
    /\ runs[run].pc = "user_commit"
    /\ users' = users \cup
           {[id |-> uuid("u-", Cardinality(users) + 1), name |-> admin_username,
             password_hash |-> get_password_hash(admin_password,
                                                 Cardinality(users) + 1),
             enabled |-> TRUE, domain_id |-> runs[run].domain,
             default_project_id |-> runs[run].project]}
    /\ Goto(run, [runs[run] EXCEPT !.pc = "roles"])
    /\ UNCHANGED <<now, domains, projects, project_seq, roles, boot,
                   tokens, issued, compute, resp, jwt>>

\* create_default_roles: one turn of the loop, the query for the role name
\* and db.add(role) when no row has it
race_find_role(run) ==
    /\ runs[run].pc = "roles"
    /\ LET role_name == default_roles[runs[run].role]
           missing   == ~\E r \in roles : r.name = role_name
       IN  Goto(run, [runs[run] EXCEPT
                 !.pending = IF missing THEN @ \cup {role_name} ELSE @,
                 !.role    = IF @ < Len(default_roles) THEN @ + 1 ELSE @,
                 !.pc      = IF runs[run].role < Len(default_roles)
                             THEN "roles" ELSE "roles_commit"])
    /\ UNCHANGED <<now, domains, projects, project_seq, users, roles, boot,
                   tokens, issued, compute, resp, jwt>>

\* The roles table with the first i names of default_roles that are pending
\* added to the table rs
RECURSIVE add_pending(_, _, _)
add_pending(rs, pending, i) ==
    IF i = 0 THEN rs
    ELSE LET before == add_pending(rs, pending, i - 1)
         IN  IF default_roles[i] \notin pending THEN before
             ELSE before \cup {[id |-> uuid("r-", Cardinality(before) + 1),
                                name |-> default_roles[i]]}

\* create_default_roles: db.commit().  Role.name is unique=True: the commit
\* raises IntegrityError when a pending name is stored.
race_commit_roles(run) ==
    /\ runs[run].pc = "roles_commit"
    /\ IF \E r \in roles : r.name \in runs[run].pending
       THEN /\ Goto(run, [runs[run] EXCEPT !.pc = "failed"])
            /\ UNCHANGED roles
       ELSE /\ roles' = add_pending(roles, runs[run].pending, Len(default_roles))
            /\ Goto(run, [runs[run] EXCEPT !.pc = "done"])
    /\ UNCHANGED <<now, domains, projects, project_seq, users, boot,
                   tokens, issued, compute, resp, jwt>>

NextRace ==
    \E run \in Procs :
        \/ RaceStart(run)
        \/ race_find_domain(run)
        \/ race_commit_domain(run)
        \/ race_find_project(run)
        \/ race_commit_project(run)
        \/ race_find_user(run)
        \/ race_commit_user(run)
        \/ race_find_role(run)
        \/ race_commit_roles(run)

SpecRace == Init /\ [][NextRace]_vars

\* C28: when the bootstrap runs whose steps interleaved have all ended, none
\* ended with an error and the database holds one domain named "Default", one
\* admin project, one admin user and the three roles.
C28_ConcurrentBootstrapsAgree ==
    (\A run \in Procs : runs[run].pc \in {"done", "failed"})
    => /\ \A run \in Procs : runs[run].pc = "done"
       /\ Cardinality({d \in domains : d.name = "Default"}) = 1
       /\ Cardinality({p \in projects : p.name = admin_project}) = 1
       /\ Cardinality({u \in users : u.name = admin_username}) = 1
       /\ Cardinality(roles) = Len(default_roles)

----------------------------------------------------------------------------
(* The order of the checks of a login: the bootstrapped database, a second *)
(* project, and logins with right and wrong credentials whose scope names  *)
(* a project by id, by name, or by both                                    *)

\* Scopes that give both an id and a name
BothScopes ==
    {ProjectScope(i, n) : i \in ProjectIds \cup {"no-such-project"},
                          n \in ProjectNames \cup {"ghost"}}

NextOrder ==
    \/ CreateProject("demo", None)
    \/ \E name \in LoginNames, pw \in Passwords, sc \in Scopes \cup BothScopes :
         Login(name, pw, "default", sc, 0)

SpecOrder == InitBootstrapped /\ [][NextOrder]_vars

\* C29: the credentials are verified before the scope is resolved: a login
\* with invalid credentials is answered 401 whatever its scope names, 404
\* "Project not found" is only ever the answer to valid credentials; and a
\* scope that gives both an id and a name is resolved by the id alone, so an id
\* that resolves nothing is answered 404 even when the name is that of a
\* stored project, and a successful login is scoped to the project of that id.
C29_CredentialsBeforeScope ==
    resp.op = "login"
    => /\ ~Authenticated => LastStatus = InvalidCredentials
       /\ resp.status = 404 => Authenticated
       /\ \A spec \in resp.req.scope :
            (Authenticated /\ spec.id # None)
            => /\ (~\E p \in projects : p.id = spec.id) => resp.status = 404
               /\ resp.status = 200
                    => \E r \in resp.row, p \in resp.project :
                         p.id = spec.id /\ r.project_id = spec.id

\* The id resolves nothing while the name is that of a stored project
C29_Witness ==
    /\ resp.op = "login" /\ resp.status = 404 /\ Authenticated
    /\ \E spec \in resp.req.scope :
         /\ spec.id # None /\ ~\E p \in projects : p.id = spec.id
         /\ \E p \in projects : p.name = spec.name

\* The combinations of status, power_state and vm_state of a server at rest
RestStates ==
    {[status |-> "ACTIVE", power_state |-> "Running", vm_state |-> "active"],
     [status |-> "SHUTOFF", power_state |-> "Shutdown", vm_state |-> "stopped"]}

\* C30: after every completed create, update, reboot, os-start, os-stop or
\* delete request each stored server is ACTIVE / Running / active or SHUTOFF /
\* Shutdown / stopped with task_state null; none is left in BUILD or DELETING.
C30_ServersAtRest ==
    \A v \in servers :
        /\ [status |-> v.status, power_state |-> v.power_state,
            vm_state |-> v.vm_state] \in RestStates
        /\ v.task_state = None

\* An accepted reboot or os-start has left a server ACTIVE
C30_Witness ==
    /\ resp.op = "server_action" /\ resp.status = 202
    /\ resp.action \in {"reboot", "os-start"}
    /\ \E v \in servers : v.status = "ACTIVE"

====
